---- MODULE Spec2Model ----
(***************************************************************************)
(* A model of script.py: the xmrig updater.  The script is one sequential  *)
(* run: validate_input, detect_system, search_xmrig, then either the       *)
(* update path (check_for_update, find_matching_assets, choose_asset,      *)
(* download_asset, extract_archive, preserve_config) or the fresh-install  *)
(* path.  Strings are sequences of one-character strings, so that lower(), *)
(* the substring test `in`, endswith() and the version regex are computed  *)
(* the way Python computes them.                                           *)
(***************************************************************************)
EXTENDS Integers, Sequences, FiniteSets, TLC

\* ------------------------------------------------------------------ bounds
MaxRawLen == 3      \* longest machine string enumerated over RawAlphabet
MaxOutLen == 7      \* longest --version output enumerated over OutAlphabet
MaxAssets == 2      \* longest asset list a release feed returns
MaxDirs   == 2      \* directories under the search directory before the run
MaxPools  == 2      \* longest 'pools' list of a config.json

\* ----------------------------------------------------------------- strings
LowerChar(c) ==
    CASE c = "A" -> "a" [] c = "B" -> "b" [] c = "C" -> "c" [] c = "D" -> "d"
      [] c = "E" -> "e" [] c = "F" -> "f" [] c = "G" -> "g" [] c = "H" -> "h"
      [] c = "I" -> "i" [] c = "J" -> "j" [] c = "K" -> "k" [] c = "L" -> "l"
      [] c = "M" -> "m" [] c = "N" -> "n" [] c = "O" -> "o" [] c = "P" -> "p"
      [] c = "Q" -> "q" [] c = "R" -> "r" [] c = "S" -> "s" [] c = "T" -> "t"
      [] c = "U" -> "u" [] c = "V" -> "v" [] c = "W" -> "w" [] c = "X" -> "x"
      [] c = "Y" -> "y" [] c = "Z" -> "z" [] OTHER -> c

\* str.lower()
Lower(s) == [i \in 1..Len(s) |-> LowerChar(s[i])]

\* `sub in s` on strings: sub occurs in s as a contiguous substring
Contains(sub, s) ==
    \E i \in 0..(Len(s) - Len(sub)) :
        \A j \in 1..Len(sub) : s[i + j] = sub[j]

\* str.endswith(suffix)
EndsWith(s, suffix) ==
    /\ Len(suffix) <= Len(s)
    /\ \A j \in 1..Len(suffix) : s[Len(s) - Len(suffix) + j] = suffix[j]

\* all strings over an alphabet, up to a length
StringsUpTo(alphabet, n) == UNION {[1..k -> alphabet] : k \in 0..n}

s_linux   == <<"l","i","n","u","x">>
s_darwin  == <<"d","a","r","w","i","n">>
s_windows == <<"w","i","n","d","o","w","s">>
s_macos   == <<"m","a","c","o","s">>
s_unknown == <<"u","n","k","n","o","w","n">>
s_x86_64  == <<"x","8","6","_","6","4">>
s_amd64   == <<"a","m","d","6","4">>
s_i386    == <<"i","3","8","6">>
s_i686    == <<"i","6","8","6">>
s_aarch64 == <<"a","a","r","c","h","6","4">>
s_arm64   == <<"a","r","m","6","4">>
s_armv7l  == <<"a","r","m","v","7","l">>
s_armv6l  == <<"a","r","m","v","6","l">>
s_arm     == <<"a","r","m">>
s_arm32   == <<"a","r","m","3","2">>
s_x64     == <<"x","6","4">>
s_x86     == <<"x","8","6">>
s_xmrig     == <<"x","m","r","i","g">>
s_xmrig_exe == <<"x","m","r","i","g",".","e","x","e">>
s_zip     == <<".","z","i","p">>
s_tar_gz  == <<".","t","a","r",".","g","z">>
s_tgz     == <<".","t","g","z">>

\* ----------------------------------------------------------- detect_system
\* os_map.get(key, 'unknown')
os_map(key) ==
    CASE key = s_linux   -> s_linux
      [] key = s_darwin  -> s_macos
      [] key = s_windows -> s_windows
      [] OTHER           -> s_unknown

\* arch_map.get(key, default)
arch_map(key, default) ==
    CASE key = s_x86_64  -> s_x64
      [] key = s_amd64   -> s_x64
      [] key = s_i386    -> s_x86
      [] key = s_i686    -> s_x86
      [] key = s_aarch64 -> s_arm64
      [] key = s_arm64   -> s_arm64
      [] key = s_armv7l  -> s_arm32
      [] key = s_armv6l  -> s_arm32
      [] OTHER           -> default

\* a slip: the machine string is looked up without lower()
DetectArchNoLower(raw) ==
    arch_map(raw, IF Contains(s_arm, raw) THEN s_arm32 ELSE s_unknown)

DetectOs(raw) == os_map(Lower(raw))

DetectArch(raw) ==
    LET m == Lower(raw)
    IN  arch_map(m, IF Contains(s_arm, m) THEN s_arm32 ELSE s_unknown)

\* --------------------------------------------------- parse_xmrig_version
Digits == {"0","1","2","3","4","5","6","7","8","9"}
Letters == {"a","b","c","d","e","f","g","h","i","j","k","l","m","n","o","p","q",
            "r","s","t","u","v","w","x","y","z",
            "A","B","C","D","E","F","G","H","I","J","K","L","M","N","O","P","Q",
            "R","S","T","U","V","W","X","Y","Z"}
IsDigit(c) == c \in Digits
\* \w of the regex: letters, digits and the underscore
IsWord(c) == c \in Digits \cup Letters \cup {"_"}

IsWordAt(s, p) == p >= 1 /\ p <= Len(s) /\ IsWord(s[p])

\* \b before position p (p in 1..Len(s)+1)
BoundaryAt(s, p) == IsWordAt(s, p - 1) # IsWordAt(s, p)

RECURSIVE DigitsEnd(_, _)
\* \d+ from position i, greedy: the first position after the run of digits
DigitsEnd(s, i) ==
    IF i <= Len(s) /\ IsDigit(s[i]) THEN DigitsEnd(s, i + 1) ELSE i

\* \b\d+\.\d+\.\d+\b matched at position i: the position after the match, or
\* 0.  Each \d+ is followed by a non-digit in the pattern, so only the
\* greedy run can match.
MatchAt(s, i) ==
    LET e1 == DigitsEnd(s, i)
        e2 == DigitsEnd(s, e1 + 1)
        e3 == DigitsEnd(s, e2 + 1)
    IN  IF /\ BoundaryAt(s, i)
           /\ e1 > i /\ e1 <= Len(s) /\ s[e1] = "."
           /\ e2 > e1 + 1 /\ e2 <= Len(s) /\ s[e2] = "."
           /\ e3 > e2 + 1
           /\ BoundaryAt(s, e3)
        THEN e3 ELSE 0

NoVersion == <<"die">>   \* die("Unable to parse version from xmrig output.")

\* re.search: the leftmost match; match.group(0) or die
parse_xmrig_version(output) ==
    LET starts == {i \in 1..Len(output) : MatchAt(output, i) > 0}
    IN  IF starts = {} THEN NoVersion
        ELSE LET i == CHOOSE k \in starts : \A l \in starts : k <= l
             IN  SubSeq(output, i, MatchAt(output, i) - 1)

\* ------------------------------------------------------------ config.json
\* A config.json is modelled by what the script can observe of it: whether
\* it exists, the JSON value json.load gives (or that it is not JSON), the
\* layout of its text and its number of lines (len(readlines())).
\*   json: [top |-> "invalid"]                      not parseable as JSON
\*         [top |-> "scalar"]                       a number
\*         [top |-> "list"]                         the list []
\*         [top |-> "dict", rest, pools]            an object; rest stands for
\*                                                  its keys other than 'pools'
\*   pools: [k |-> "absent"] | [k |-> "scalar"] | [k |-> "list", items]
\*   an item of pools: [d |-> FALSE] (not an object) or
\*         [d |-> TRUE, url, user, tls, fp, extra]  ("absent": key missing)
\*   lay:  "dump4" is the text json.dump(indent=4) writes, "other" any other
\*         text (with n lines)
PoolUrl  == "pool.hashvault.pro:443"       \* line 141
PoolUser == "hard-coded-user"              \* the literal of line 142
PoolTls  == "true"                         \* line 143
PoolFp   == "hard-coded-fingerprint"       \* the literal of line 144

NoFile == [exists |-> FALSE]
InvalidJson == [top |-> "invalid"]
\* the empty list of lines, and the empty file writelines([]) leaves
EmptyText == [exists |-> TRUE, json |-> InvalidJson, lay |-> "other", n |-> 0]

RestLines(rest) == IF rest = "r0" THEN 0 ELSE 1
ExtraLines(extra) == IF extra = "e0" THEN 0 ELSE 1

\* lines of one item of pools as json.dump(indent=4) writes it
ItemLines(it) ==
    IF ~it.d THEN 1
    ELSE LET keys == Cardinality({f \in {"url", "user", "tls", "fp"} : it[f] # "absent"})
                     + ExtraLines(it.extra)
         IN  IF keys = 0 THEN 1 ELSE 2 + keys

RECURSIVE SumItemLines(_)
SumItemLines(items) ==
    IF items = <<>> THEN 0 ELSE ItemLines(Head(items)) + SumItemLines(Tail(items))

PoolsLines(pools) ==
    CASE pools.k = "absent" -> 0
      [] pools.k = "scalar" -> 1
      [] OTHER -> IF pools.items = <<>> THEN 1 ELSE 2 + SumItemLines(pools.items)

\* number of lines of json.dump(value, indent=4)
DumpLines(j) ==
    IF j.top = "dict"
    THEN LET body == RestLines(j.rest) + PoolsLines(j.pools)
         IN  IF body = 0 THEN 1 ELSE 2 + body
    ELSE 1

\* json.dump(config, f, indent=4) into a file opened with 'w'
Dump(j) == [exists |-> TRUE, json |-> j, lay |-> "dump4", n |-> DumpLines(j)]

\* the body of `if 'pools' in config and isinstance(...) and len(...) > 0`
SetPool(item) ==
    [item EXCEPT !.url = PoolUrl, !.user = PoolUser, !.tls = PoolTls, !.fp = PoolFp]

\* a slip: every pool entry is rewritten, not only pools[0]
RewriteAllPools(j) ==
    [j EXCEPT !.pools.items = [i \in 1..Len(j.pools.items) |-> SetPool(j.pools.items[i])]]

RewritePools(j) ==
    [j EXCEPT !.pools.items[1] = SetPool(j.pools.items[1])]

\* update_config_json on the config.json of a directory: the file after it.
\* An exception inside the try (invalid JSON, `'pools' in` a number, item
\* assignment on a pools[0] that is no object) is raised before the file is
\* opened for writing, and leaves it as it was.
update_config_json(file) ==
    IF ~file.exists THEN file
    ELSE IF file.json.top \in {"invalid", "scalar"} THEN file
    ELSE IF file.json.top = "list" THEN Dump(file.json)
    ELSE IF file.json.pools.k = "list" /\ file.json.pools.items # <<>>
         THEN IF file.json.pools.items[1].d THEN Dump(RewritePools(file.json)) ELSE file
         ELSE Dump(file.json)

\* --- the configs the specifications enumerate
FieldOld == {"absent", "orig"}
PoolItems ==
    {[d |-> FALSE]} \cup
    [d : {TRUE}, url : FieldOld, user : {"orig", PoolUser}, tls : {"absent", "false"},
     fp : {"absent"}, extra : {"e0", "e1"}]
PoolsVals ==
    {[k |-> "absent"], [k |-> "scalar"]} \cup
    {[k |-> "list", items |-> its] : its \in StringsUpTo(PoolItems, MaxPools)}
JsonVals ==
    {InvalidJson, [top |-> "scalar"], [top |-> "list"]} \cup
    [top : {"dict"}, rest : {"r0", "r1"}, pools : PoolsVals]
\* the texts of a JSON value: the dump4 text, or another layout on one line
\* or on n + 1 lines
TextsOf(j) ==
    IF j.top = "invalid"
    THEN {[exists |-> TRUE, json |-> j, lay |-> "other", n |-> k] : k \in {0, 1}}
    ELSE {Dump(j)} \cup
         {[exists |-> TRUE, json |-> j, lay |-> "other", n |-> k] : k \in {1, DumpLines(j) + 1}}
AllFiles == {NoFile} \cup UNION {TextsOf(j) : j \in JsonVals}

\* ------------------------------------------------- the state of one run
VARIABLES
    pc,             \* the statement the script is at
    exit,           \* "running", or how the process ended: "exit0" (sys.exit(0)),
                    \* "end" (the script ran to its last line), "die" (exit 1),
                    \* "crash" (an uncaught exception)
    arg,            \* sys.argv: "missing", "file" (not a directory) or "dir"
    os_raw,         \* platform.system()
    machine,        \* platform.machine()
    os_name, arch,  \* what detect_system returned
    dirs,           \* the directories under SEARCH_DIR, in os.walk order
    topfiles,       \* the plain files directly in SEARCH_DIR
    result,         \* what search_xmrig returned
    update,         \* what check_for_update returned
    assets, matches, chosen,
    choice,         \* the index entered at choose_asset's prompt, 0 if none
    before,         \* extract_archive's listing of dest_dir before extraction
    extracted_dir,  \* extract_archive's new_dirs[0]
    msg,            \* the message of die(), "" if die was not called
    log,            \* the side effects so far, in order:
                    \* <<event, directory id, calling function>>
    output,         \* the text a binary printed for --version
    version,        \* parse_xmrig_version's result
    snap            \* earlier contents of files, for comparison

vars == <<pc, exit, arg, os_raw, machine, os_name, arch, dirs, topfiles, result,
          update, assets, matches, chosen, choice, before, extracted_dir, msg,
          log, output, version, snap>>

\* ---------------------------------------------------------- sample inputs
r_Linux   == <<"L","i","n","u","x">>
r_FreeBSD == <<"F","r","e","e","B","S","D">>
r_x86_64  == <<"x","8","6","_","6","4">>
r_AMD64   == <<"A","M","D","6","4">>

\* a file of a directory that search_xmrig may run: its name, whether
\* running it with --version raises, and what it prints
NoBinary  == [name |-> <<>>, run |-> "fail", out |-> <<>>]
b_ok      == [name |-> <<"x","m","r","i","g">>, run |-> "ok",
              out |-> <<"X","M","R","i","g"," ","6",".","2",".","0">>]
b_exe     == [name |-> <<"X","M","R","i","g",".","E","X","E">>, run |-> "ok",
              out |-> <<"x","m","r","i","g","/","1",".","0",".","1","0","-","b">>]
b_fails   == [name |-> <<"x","m","r","i","g">>, run |-> "fail", out |-> <<>>]
b_nover   == [name |-> <<"x","m","r","i","g">>, run |-> "ok",
              out |-> <<"d","e","v"," ","b","u","i","l","d">>]
b_script  == [name |-> <<"x","m","r","i","g",".","s","h">>, run |-> "ok",
              out |-> <<"9",".","9",".","9">>]

\* a release asset: its 'os' and 'id' fields and the file name of its url
a_static == [os |-> <<"l","i","n","u","x">>, id |-> <<"l","i","n","u","x","-","s","t","a","t","i","c","-","x","6","4">>,
             file |-> <<"s",".","t","a","r",".","g","z">>]
a_gcc    == [os |-> <<"L","I","N","U","X","-","X","6","4">>, id |-> <<"g","c","c">>,
             file |-> <<"g",".","z","i","p">>]
a_jammy  == [os |-> <<"l","i","n","u","x">>, id |-> <<"j","a","m","m","y","-","x","6","4">>,
             file |-> <<"j",".","t","g","z">>]
a_other  == [os |-> <<"u","n","k","n","o","w","n">>, id |-> <<"u","n","k","n","o","w","n","-","x","6","4">>,
             file |-> <<"u",".","7","z">>]
NoAsset  == [os |-> <<>>, id |-> <<>>, file |-> <<>>]
AssetSamples == {a_static, a_gcc, a_jammy, a_other}
AssetLists == StringsUpTo(AssetSamples, MaxAssets)

\* configs of the sample directories
j_full  == [top |-> "dict", rest |-> "r1",
            pools |-> [k |-> "list", items |->
                <<[d |-> TRUE, url |-> "orig", user |-> "orig", tls |-> "false",
                   fp |-> "orig", extra |-> "e1"]>>]]
j_short == [top |-> "dict", rest |-> "r1",
            pools |-> [k |-> "list", items |->
                <<[d |-> TRUE, url |-> "orig", user |-> "orig", tls |-> "absent",
                   fp |-> "absent", extra |-> "e0"]>>]]
c_old     == Dump(j_full)
c_oldline == [exists |-> TRUE, json |-> j_full, lay |-> "other", n |-> 1]
c_shipped == [exists |-> TRUE, json |-> j_short, lay |-> "other", n |-> DumpLines(j_full)]
c_nopools == Dump([top |-> "dict", rest |-> "r1", pools |-> [k |-> "absent"]])

DirSamples ==
    { [bin |-> b_ok,     cfg |-> c_old],
      [bin |-> b_exe,    cfg |-> NoFile],
      [bin |-> b_ok,     cfg |-> c_oldline],
      [bin |-> b_fails,  cfg |-> c_oldline],
      [bin |-> b_nover,  cfg |-> NoFile],
      [bin |-> b_script, cfg |-> c_shipped],
      [bin |-> NoBinary, cfg |-> c_nopools] }
\* what an archive may put into a new directory as its config.json
PayloadConfigs == {NoFile, c_shipped, c_oldline, EmptyText}

WithIds(ds) == [i \in 1..Len(ds) |-> [id |-> i, bin |-> ds[i].bin, cfg |-> ds[i].cfg]]
InitialDirs == {WithIds(ds) : ds \in StringsUpTo(DirSamples, MaxDirs)}

NoResult == [kind |-> "none", version |-> <<>>, dir |-> 0, config |-> EmptyText]
NoUpdate == [kind |-> "none", assets |-> <<>>]

\* ------------------------------------------------------------ search_xmrig
IsCandidate(name) == Lower(name) \in {s_xmrig, s_xmrig_exe}

RECURSIVE SearchFrom(_, _)
\* the walk from the i-th directory on.  A candidate whose run raises is
\* skipped by `except Exception`; die() inside parse_xmrig_version raises
\* SystemExit, which that handler does not catch, so it ends the run.
SearchFrom(ds, i) ==
    IF i > Len(ds) THEN NoResult
    ELSE IF ~IsCandidate(ds[i].bin.name) THEN SearchFrom(ds, i + 1)
    ELSE IF ds[i].bin.run = "fail" THEN SearchFrom(ds, i + 1)
    ELSE IF parse_xmrig_version(ds[i].bin.out) = NoVersion
         THEN [NoResult EXCEPT !.kind = "die"]
         ELSE [kind |-> "found", version |-> parse_xmrig_version(ds[i].bin.out),
               dir |-> ds[i].id,
               config |-> IF ds[i].cfg.exists THEN ds[i].cfg ELSE EmptyText]

search_xmrig_result(ds) == SearchFrom(ds, 1)

\* --------------------------------------------------- find_matching_assets
AssetMatches(a, osn, ar) ==
    LET os_arch == osn \o <<"-">> \o ar
        aos == Lower(a.os)
        aid == Lower(a.id)
    IN  \/ os_arch \in {aos, aid}
        \/ (Contains(osn, aos) /\ Contains(ar, aos))
        \/ (Contains(osn, aid) /\ Contains(ar, aid))

\* a slip: no filter, every asset of the feed is offered
find_all_assets(list, osn, ar) == list

find_matching_assets(list, osn, ar) ==
    LET Test(a) == AssetMatches(a, osn, ar) IN SelectSeq(list, Test)

\* ------------------------------------------------------------ the actions
die(m) == /\ pc' = "done"
          /\ exit' = "die"
          /\ msg' = m
Go(to) == /\ pc' = to
          /\ UNCHANGED <<exit, msg>>

\* validate_input
validate_input ==
    /\ pc = "validate"
    /\ CASE arg = "dir"     -> Go("detect")
         [] arg = "missing" -> die("Usage: python3 script.py <directory>")
         [] arg = "file"    -> die("Provided argument is not a directory")
    /\ UNCHANGED <<arg, os_raw, machine, os_name, arch, dirs, topfiles, result,
                   update, assets, matches, chosen, choice, before,
                   extracted_dir, log, output, version, snap>>

\* detect_system
detect_system ==
    /\ pc = "detect"
    /\ os_name' = DetectOs(os_raw)
    /\ arch' = DetectArch(machine)
    /\ Go("search")
    /\ UNCHANGED <<arg, os_raw, machine, dirs, topfiles, result, update,
                   assets, matches, chosen, choice, before, extracted_dir, log,
                   output, version, snap>>

\* result = search_xmrig(SEARCH_DIR); if result: ... else: ...
search_xmrig ==
    /\ pc = "search"
    /\ LET r == search_xmrig_result(dirs)
       IN  IF r.kind = "die"
           THEN die("Unable to parse version from xmrig output.") /\ UNCHANGED result
           ELSE /\ result' = r
                /\ Go(IF r.kind = "found" THEN "check_update" ELSE "ask")
    /\ UNCHANGED <<arg, os_raw, machine, os_name, arch, dirs, topfiles, update,
                   assets, matches, chosen, choice, before, extracted_dir, log,
                   output, version, snap>>

\* update = check_for_update(version); if not update: sys.exit(0)
\* The reply of the release feed is the input:
\*   "release"  a JSON object, returned as the update (its 'assets' may be
\*              missing or empty: the empty list here)
\*   "falsy"    a JSON body that is falsy in Python ({}, null, [], 0)
\*   "uptodate" 404 with error UPDATE_NOT_FOUND: returns None
\*   "error"    any other 404, HTTP error or failure: die
\*   "nondict"  a truthy JSON body without .get (a list, a number): the
\*              script crashes on update.get
\* a slip: only None ends the run, a falsy JSON body does not
UpdateNeededUnlessNone(u) == u.kind # "uptodate"

\* `if not update: sys.exit(0)`: whether the run goes on to resolve assets
UpdateNeeded(u) == u.kind \in {"release", "nondict"}

check_for_update ==
    /\ pc = "check_update"
    /\ \E reply \in {"release", "falsy", "uptodate", "error", "nondict"} :
         IF reply = "error"
         THEN die("Failed to check for update") /\ UNCHANGED update
         ELSE \E list \in IF reply = "release" THEN AssetLists ELSE {<<>>} :
                LET u == [kind |-> reply, assets |-> list]
                IN  /\ update' = u
                    /\ msg' = msg
                    /\ IF ~UpdateNeeded(u) THEN pc' = "done" /\ exit' = "exit0"
                       ELSE IF reply = "nondict" THEN pc' = "done" /\ exit' = "crash"
                       ELSE pc' = "resolve" /\ exit' = exit
    /\ UNCHANGED <<arg, os_raw, machine, os_name, arch, dirs, topfiles, result,
                   assets, matches, chosen, choice, before, extracted_dir, log,
                   output, version, snap>>

\* if input("Download latest version of xmrig? [y/N] ") ... in ('y', 'yes')
ask_download ==
    /\ pc = "ask"
    /\ \E yes \in BOOLEAN :
         IF yes THEN Go("resolve")
         ELSE pc' = "done" /\ exit' = "end" /\ msg' = msg
    /\ UNCHANGED <<arg, os_raw, machine, os_name, arch, dirs, topfiles, result,
                   update, assets, matches, chosen, choice, before,
                   extracted_dir, log, output, version, snap>>

\* assets = update.get("assets") or fetch_latest_assets()   (update path)
\* assets = fetch_latest_assets()                           (fresh install)
\* matches = find_matching_assets(assets, os_name, arch)
\* if not matches: die(...);  chosen = matches[0] if len(matches) == 1 else ...
Resolved(list) ==
    LET m == find_matching_assets(list, os_name, arch)
    IN  /\ assets' = list
        /\ matches' = m
        /\ IF m = <<>> THEN die("No matching assets found.") /\ UNCHANGED chosen
           ELSE IF Len(m) = 1
                THEN chosen' = m[1] /\ Go("download")
                ELSE Go("choose") /\ UNCHANGED chosen

resolve_assets ==
    /\ pc = "resolve"
    /\ IF update.assets # <<>>
       THEN Resolved(update.assets)
       ELSE \/ \E list \in AssetLists : Resolved(list)
            \/ die("Failed to fetch release data") /\ UNCHANGED <<assets, matches, chosen>>
    /\ UNCHANGED <<arg, os_raw, machine, os_name, arch, dirs, topfiles, result,
                   update, choice, before, extracted_dir, log, output, version,
                   snap>>

\* a slip: the entered index is read but matches[0] is returned
choose_asset_first ==
    /\ pc = "choose"
    /\ \E c \in 1..Len(matches) :
         /\ choice' = c
         /\ chosen' = matches[1]
    /\ Go("download")
    /\ UNCHANGED <<arg, os_raw, machine, os_name, arch, dirs, topfiles,
                   result, update, assets, matches, before, extracted_dir, log,
                   output, version, snap>>

\* choose_asset: the loop ends only with an index in 1..len(matches); an
\* invalid entry changes nothing and asks again
choose_asset ==
    /\ pc = "choose"
    /\ \E c \in 1..Len(matches) :
         /\ choice' = c
         /\ chosen' = matches[c]
    /\ Go("download")
    /\ UNCHANGED <<arg, os_raw, machine, os_name, arch, dirs, topfiles,
                   result, update, assets, matches, before, extracted_dir, log,
                   output, version, snap>>

\* ------------------------------------------- download_asset, extract_archive
ArchiveFile == <<"file", 0>>     \* the downloaded archive, in SEARCH_DIR
ExtraFile   == <<"file", 1>>     \* a plain file an archive holds at its top

\* os.listdir(dest_dir)
Listing(ds, files) == {<<"dir", ds[i].id>> : i \in 1..Len(ds)} \cup files

\* a slip: the `else: return` for an unknown format is lost, so every
\* archive goes on to extraction and deletion
KnownFormatLoose(file) == TRUE

\* filepath.endswith(".zip") / filepath.endswith((".tar.gz", ".tgz"))
KnownFormat(file) ==
    EndsWith(file, s_zip) \/ EndsWith(file, s_tar_gz) \/ EndsWith(file, s_tgz)

InsertAt(ds, pos, d) == SubSeq(ds, 1, pos - 1) \o <<d>> \o SubSeq(ds, pos, Len(ds))

SetCfg(ds, id, f) ==
    [i \in 1..Len(ds) |-> IF ds[i].id = id THEN [ds[i] EXCEPT !.cfg = f] ELSE ds[i]]

CfgOf(ds, id) ==
    IF \E i \in 1..Len(ds) : ds[i].id = id
    THEN (ds[CHOOSE i \in 1..Len(ds) : ds[i].id = id]).cfg
    ELSE NoFile

\* where the script goes when download_asset returns
AfterDownload == IF result.kind = "found" THEN "preserve" ELSE "done"
Return == /\ pc' = AfterDownload
          /\ exit' = IF AfterDownload = "done" THEN "end" ELSE exit
          /\ msg' = msg

\* urllib.request.urlretrieve(url, filepath).  Nothing from the call of
\* download_asset(chosen, SEARCH_DIR) on reads update, assets or matches:
\* the state stops carrying them here.
download_asset ==
    /\ pc = "download"
    /\ log' = Append(log, <<"urlretrieve", 0, "download_asset">>)
    /\ \E ok \in BOOLEAN :
         IF ok THEN /\ topfiles' = topfiles \cup {ArchiveFile}
                    /\ Go("extract")
         ELSE die("Download failed") /\ UNCHANGED topfiles
    /\ update' = [update EXCEPT !.assets = <<>>]
    /\ assets' = <<>>
    /\ matches' = <<>>
    /\ UNCHANGED <<arg, os_raw, machine, os_name, arch, dirs, result, chosen,
                   choice, before, extracted_dir, output, version, snap>>

\* extract_archive up to extractall: what the archive holds is the input, a
\* new directory (anywhere in walk order, with or without a config.json)
\* and/or a plain file; extractall may raise, after writing all of it or
\* none of it
extract_archive ==
    /\ pc = "extract"
    /\ before' = Listing(dirs, topfiles)
    /\ IF KnownFormat(chosen.file)
       THEN \E ok \in BOOLEAN, extra \in BOOLEAN, newdir \in BOOLEAN :
            \E cfg \in IF newdir THEN PayloadConfigs ELSE {NoFile} :
            \E pos \in IF newdir THEN 1..(Len(dirs) + 1) ELSE {1} :
              /\ dirs' = IF newdir
                         THEN InsertAt(dirs, pos,
                                [id |-> Len(dirs) + 1, bin |-> b_ok, cfg |-> cfg])
                         ELSE dirs
              /\ topfiles' = IF extra THEN topfiles \cup {ExtraFile} ELSE topfiles
              /\ IF ok THEN /\ log' = Append(log, <<"extractall", 0, "extract_archive">>)
                            /\ Go("remove")
                 ELSE die("Extraction failed") /\ UNCHANGED log
       ELSE Return /\ UNCHANGED <<dirs, topfiles, log>>
    /\ UNCHANGED <<arg, os_raw, machine, os_name, arch, result, update, assets,
                   matches, chosen, choice, extracted_dir, output, version, snap>>

\* os.remove(filepath); new_dirs = list(after - before); new_dirs[0] is any
\* element of the difference (a set has no order)
extract_archive_remove ==
    /\ pc = "remove"
    /\ topfiles' = topfiles \ {ArchiveFile}
    /\ log' = Append(log, <<"remove", 0, "extract_archive">>)
    /\ LET new == Listing(dirs, topfiles') \ before
       IN  IF new = {} THEN Return /\ UNCHANGED extracted_dir
           ELSE \E e \in new :
                  IF e[1] = "dir"
                  THEN /\ extracted_dir' = e[2]
                       /\ Go("rewrite")
                  ELSE Return /\ UNCHANGED extracted_dir
    /\ UNCHANGED <<arg, os_raw, machine, os_name, arch, dirs, result, update,
                   assets, matches, chosen, choice, before, output, version, snap>>

\* update_config_json(extracted_dir)
extract_archive_update ==
    /\ pc = "rewrite"
    /\ dirs' = SetCfg(dirs, extracted_dir, update_config_json(CfgOf(dirs, extracted_dir)))
    /\ log' = Append(log, <<"update_config_json", extracted_dir, "extract_archive">>)
    /\ Return
    /\ UNCHANGED <<arg, os_raw, machine, os_name, arch, topfiles, result, update,
                   assets, matches, chosen, choice, before, extracted_dir,
                   output, version, snap>>

\* --------------------------------------------------------- preserve_config
\* the walk-order positions of the directories that hold a config.json
ConfigDirs(ds) == {i \in 1..Len(ds) : ds[i].cfg.exists}

Least(S) == CHOOSE k \in S : \A l \in S : k <= l

\* os.path.samefile stats both paths: with no config.json beside the old
\* binary it raises FileNotFoundError at the first config.json of the walk
SamefileRaises(ds, old) == ConfigDirs(ds) # {} /\ ~CfgOf(ds, old).exists

\* the position of the config.json preserve_config handles, 0 if none
PreserveTarget(ds, old) ==
    LET c == {i \in ConfigDirs(ds) : ds[i].id # old}
    IN  IF c = {} THEN 0 ELSE Least(c)

preserve_config ==
    /\ pc = "preserve"
    /\ pc' = "done"
    /\ msg' = msg
    /\ snap' = dirs
    /\ IF SamefileRaises(dirs, result.dir)
       THEN exit' = "crash" /\ UNCHANGED <<dirs, log>>
       ELSE LET t == PreserveTarget(dirs, result.dir)
            IN  /\ exit' = "end"
                /\ IF t = 0 THEN UNCHANGED <<dirs, log>>
                   ELSE IF dirs[t].cfg.n = result.config.n
                   THEN /\ dirs' = [dirs EXCEPT ![t].cfg = result.config]
                        /\ log' = Append(log, <<"writelines", dirs[t].id, "preserve_config">>)
                   ELSE /\ dirs' = [dirs EXCEPT ![t].cfg = update_config_json(dirs[t].cfg)]
                        /\ log' = Append(log, <<"update_config_json", dirs[t].id,
                                            "preserve_config">>)
    /\ UNCHANGED <<arg, os_raw, machine, os_name, arch, topfiles, result, update,
                   assets, matches, chosen, choice, before, extracted_dir,
                   output, version>>

\* ------------------------------------------------------ the whole script
HostSamples == {<<r_Linux, r_x86_64>>, <<r_FreeBSD, r_AMD64>>}

Init ==
    /\ pc = "validate"
    /\ exit = "running"
    /\ arg \in {"missing", "file", "dir"}
    /\ \E h \in IF arg = "dir" THEN HostSamples ELSE {<<r_Linux, r_x86_64>>} :
         os_raw = h[1] /\ machine = h[2]
    /\ dirs \in IF arg = "dir" THEN InitialDirs ELSE {<<>>}
    /\ os_name = <<>> /\ arch = <<>>
    /\ topfiles = {}
    /\ result = NoResult
    /\ update = NoUpdate
    /\ assets = <<>> /\ matches = <<>> /\ chosen = NoAsset /\ choice = 0
    /\ before = {} /\ extracted_dir = 0
    /\ msg = ""
    /\ log = <<>>
    /\ output = <<>> /\ version = <<>>
    /\ snap = <<>>

Next ==
    \/ validate_input
    \/ detect_system
    \/ search_xmrig
    \/ check_for_update
    \/ ask_download
    \/ resolve_assets
    \/ choose_asset
    \/ download_asset
    \/ extract_archive
    \/ extract_archive_remove
    \/ extract_archive_update
    \/ preserve_config

Spec == Init /\ [][Next]_vars

\* Defaults of the variables a specification of one function leaves alone
Idle ==
    /\ exit = "running" /\ arg = "dir"
    /\ topfiles = {} /\ result = NoResult /\ update = NoUpdate
    /\ assets = <<>> /\ matches = <<>> /\ chosen = NoAsset /\ choice = 0
    /\ before = {} /\ extracted_dir = 0
    /\ msg = "" /\ log = <<>>
    /\ version = <<>> /\ snap = <<>>

\* ------------------------------------------- detect_system on its own
OsRawSamples ==
    {<<"L","i","n","u","x">>,
     <<"l","i","n","u","x">>,
     <<"L","I","N","U","X">>,
     <<"D","a","r","w","i","n">>,
     <<"D","A","R","W","I","N">>,
     <<"W","i","n","d","o","w","s">>,
     <<"w","i","n","d","o","w","s">>,
     <<"F","r","e","e","B","S","D">>,
     <<"J","a","v","a">>,
     <<>>,
     <<"l","i","n","u","x","2">>,
     <<"w","i","n","3","2">>,
     <<"m","a","c","o","s">>,
     <<"u","n","k","n","o","w","n">>}
MachineSamples ==
    {<<"x","8","6","_","6","4">>,
     <<"X","8","6","_","6","4">>,
     <<"A","M","D","6","4">>,
     <<"a","m","d","6","4">>,
     <<"i","3","8","6">>,
     <<"i","6","8","6">>,
     <<"I","6","8","6">>,
     <<"a","a","r","c","h","6","4">>,
     <<"A","A","R","C","H","6","4">>,
     <<"a","r","m","6","4">>,
     <<"A","R","M","6","4">>,
     <<"a","r","m","v","7","l">>,
     <<"a","r","m","v","6","l">>,
     <<"A","R","M","v","7","L">>,
     <<"a","r","m","v","8","l">>,
     <<"A","R","M","v","8","L">>,
     <<"a","r","m","v","5","t","e","l">>,
     <<"r","i","s","c","v","6","4">>,
     <<"p","p","c","6","4","l","e">>,
     <<"c","h","a","r","m">>,
     <<"x","6","4">>,
     <<"x","8","6">>,
     <<>>,
     <<"a","a","r","c","h","6","4","_","b","e">>,
     <<"a","r","m","6","4","e">>,
     <<"u","n","k","n","o","w","n">>}
RawAlphabet == {"a", "r", "m", "A", "M", "6", "4"}

InitProfile ==
    /\ pc = "detect"
    /\ os_raw \in OsRawSamples
    /\ machine \in MachineSamples \cup StringsUpTo(RawAlphabet, MaxRawLen)
    /\ os_name = <<>> /\ arch = <<>>
    /\ dirs = <<>> /\ output = <<>>
    /\ Idle

SpecProfile == InitProfile /\ [][detect_system]_vars

\* --------------------------------------- parse_xmrig_version on its own
OutSamples ==
    {<<"X","M","R","i","g"," ","6",".","2","5",".","0">>,
     <<"6",".","2","5">>,
     <<"6",".","2","5",".","0">>,
     <<"6",".","2","5",".","0",".","1">>,
     <<"v","6",".","2","5",".","0">>,
     <<"6",".","2","5",".","0","-","b","e","t","a">>,
     <<"x","m","r","i","g"," ","1","0",".","0",".","1","2"," ","b","u","i","l","t">>,
     <<"6","_","2","5",".","0",".","1">>,
     <<"a","6",".","2",".","5">>,
     <<"6",".","2",".","5","b">>,
     <<>>,
     <<"6",".",".","2",".","5">>}
OutAlphabet == {"6", ".", "v", " "}

\* version = parse_xmrig_version(output), then check_for_update(version)
parse_version_step ==
    /\ pc = "parse"
    /\ version' = parse_xmrig_version(output)
    /\ IF version' = NoVersion
       THEN die("Unable to parse version from xmrig output.")
       ELSE Go("check_update")
    /\ UNCHANGED <<arg, os_raw, machine, os_name, arch, dirs, topfiles, result,
                   update, assets, matches, chosen, choice, before,
                   extracted_dir, log, output, snap>>

InitVersion ==
    /\ pc = "parse"
    /\ output \in OutSamples \cup StringsUpTo(OutAlphabet, MaxOutLen)
    /\ os_raw = <<>> /\ machine = <<>> /\ os_name = <<>> /\ arch = <<>>
    /\ dirs = <<>>
    /\ Idle

SpecVersion == InitVersion /\ [][parse_version_step]_vars

\* ---------------------------------------- update_config_json on its own
\* update_config_json(directory), on a directory holding any config.json
\* or none; snap keeps the file as it was before each call
apply_update_config ==
    /\ pc = "config"
    /\ Len(snap) < 2
    /\ snap' = Append(snap, dirs[1].cfg)
    /\ dirs' = SetCfg(dirs, 1, update_config_json(dirs[1].cfg))
    /\ log' = Append(log, <<"update_config_json", 1, "">>)
    /\ UNCHANGED <<pc, exit, arg, os_raw, machine, os_name, arch, topfiles,
                   result, update, assets, matches, chosen, choice, before,
                   extracted_dir, msg, output, version>>

InitConfig ==
    /\ pc = "config"
    /\ \E f \in AllFiles : dirs = <<[id |-> 1, bin |-> NoBinary, cfg |-> f]>>
    /\ os_raw = <<>> /\ machine = <<>> /\ os_name = <<>> /\ arch = <<>>
    /\ output = <<>>
    /\ Idle

SpecConfig == InitConfig /\ [][apply_update_config]_vars

\* ================================================================ claims

\* --- C1
EqNoCase(a, b) ==
    /\ Len(a) = Len(b)
    /\ \A i \in 1..Len(a) : LowerChar(a[i]) = LowerChar(b[i])
HasArmNoCase(x) ==
    \E i \in 1..(Len(x) - 2) :
        /\ LowerChar(x[i]) = "a"
        /\ LowerChar(x[i + 1]) = "r"
        /\ LowerChar(x[i + 2]) = "m"
IsOneOf(raw, names) == \E k \in names : EqNoCase(raw, k)
TableOs(raw) ==
    IF EqNoCase(raw, s_linux) THEN s_linux
    ELSE IF EqNoCase(raw, s_darwin) THEN s_macos
    ELSE IF EqNoCase(raw, s_windows) THEN s_windows
    ELSE s_unknown
TableArch(raw) ==
    IF IsOneOf(raw, {s_x86_64, s_amd64}) THEN s_x64
    ELSE IF IsOneOf(raw, {s_i386, s_i686}) THEN s_x86
    ELSE IF IsOneOf(raw, {s_aarch64, s_arm64}) THEN s_arm64
    ELSE IF IsOneOf(raw, {s_armv7l, s_armv6l}) THEN s_arm32
    ELSE IF HasArmNoCase(raw) THEN s_arm32
    ELSE s_unknown

\* C1: for every raw OS name and machine string, the pair detect_system
\* returns is the one the reference table gives, case-insensitively:
\* linux/darwin/windows, else unknown; the eight listed machine names,
\* else arm32 for a string containing 'arm', else unknown.
C1_DetectSystemTable ==
    pc = "search" => (os_name = TableOs(os_raw) /\ arch = TableArch(machine))

\* an unlisted machine string in upper case that contains 'arm' gave arm32
C1_Witness ==
    /\ pc = "search"
    /\ machine = <<"A","R","M","v","8","L">>
    /\ arch = s_arm32
    /\ os_raw = <<"D","A","R","W","I","N">>
    /\ os_name = s_macos

\* --- C2
HasEvent(ev) == \E i \in 1..Len(log) : log[i][1] = ev

\* C2: when the detected operating system is 'unknown' the run never gets
\* to choose an asset and never downloads, extracts or writes a config.
C2_UnknownOsNeverResolves ==
    os_name = s_unknown =>
        (pc \notin {"choose", "download"} /\ chosen = NoAsset /\ log = <<>>)

\* --- C3
RECURSIVE MatchingInOrder(_, _, _)
MatchingInOrder(list, osn, ar) ==
    IF list = <<>> THEN <<>>
    ELSE (IF AssetMatches(Head(list), osn, ar) THEN <<Head(list)>> ELSE <<>>)
         \o MatchingInOrder(Tail(list), osn, ar)

JammyCase ==
    assets = <<a_jammy, a_static>> /\ os_name = s_linux /\ arch = s_x64

\* C3, as the claim states it: the asset is selected without further
\* input and is the first asset in list order that matches, later assets
\* are never selected, and with a jammy-x64 and a static-x64 asset on a
\* linux/x64 host the jammy asset is selected.
C3_FirstMatchWithoutInput ==
    pc = "download" =>
        /\ choice = 0
        /\ chosen = matches[1]
        /\ JammyCase => chosen = a_jammy

\* C3, amended: matches is every asset that satisfies the platform
\* predicate, in feed order; a single match is selected without input;
\* with several matches the user is asked and the asset at the entered
\* index is selected, which may be any of them; there are no codename
\* fragments, and in the jammy/static case the static asset is selected.
C3_AllMatchesThenUserChoice ==
    pc = "download" =>
        /\ matches = MatchingInOrder(assets, os_name, arch)
        /\ matches # <<>>
        /\ IF Len(matches) = 1
           THEN choice = 0 /\ chosen = matches[1]
           ELSE choice \in 1..Len(matches) /\ chosen = matches[choice]
        /\ JammyCase => chosen = a_static

\* two assets matched and the user took the second
C3_Witness ==
    /\ pc = "download"
    /\ matches = <<a_static, a_gcc>>
    /\ choice = 2
    /\ chosen = a_gcc

\* --- C4
NoMatchMsg == "No matching assets found."

\* C4: choosing and downloading happen only with an asset that satisfies
\* the platform predicate for the detected (os, arch); when no asset of
\* the list matches (the empty list included) the run dies with "No
\* matching assets found." before any download, extraction or config
\* write, on the update path and on the fresh-install path.
C4_DownloadOnlyMatching ==
    /\ pc \in {"choose", "download"} =>
          /\ matches # <<>>
          /\ \A i \in 1..Len(matches) :
                /\ AssetMatches(matches[i], os_name, arch)
                /\ \E j \in 1..Len(assets) : assets[j] = matches[i]
          /\ log = <<>>
    /\ (pc = "download" \/ log # <<>>) =>
          /\ chosen # NoAsset
          /\ AssetMatches(chosen, os_name, arch)
    /\ msg = NoMatchMsg =>
          /\ exit = "die"
          /\ log = <<>>
          /\ chosen = NoAsset
          /\ \A j \in 1..Len(assets) : ~AssetMatches(assets[j], os_name, arch)
    /\ (pc \in {"choose", "download"} \/ msg = NoMatchMsg \/ log # <<>>) =>
          (msg = NoMatchMsg <=>
             (log = <<>> /\ \A j \in 1..Len(assets) :
                               ~AssetMatches(assets[j], os_name, arch)))

\* a fresh install that died because the feed's assets did not match
C4_Witness ==
    /\ result.kind = "none"
    /\ assets = <<a_jammy, a_other>>
    /\ os_name = s_linux
    /\ msg = NoMatchMsg

\* --- C5
\* C5: with an installed binary found and the update check reporting no
\* update (None, or a falsy body), the run ends with exit status 0 and
\* has resolved, downloaded, extracted and written nothing; on the update
\* path resolution and download are reached only with a reported update.
C5_NoUpdateNoDownload ==
    /\ (result.kind = "found" /\ update.kind \in {"uptodate", "falsy"}) =>
          /\ pc = "done" /\ exit = "exit0"
          /\ log = <<>> /\ topfiles = {}
          /\ assets = <<>> /\ matches = <<>> /\ chosen = NoAsset
    /\ (result.kind = "found"
        /\ (pc \in {"resolve", "choose", "download"} \/ log # <<>>)) =>
          update.kind = "release"

\* the feed answered with a falsy body and the run ended with status 0
C5_Witness ==
    /\ result.kind = "found"
    /\ update.kind = "falsy"
    /\ exit = "exit0"

\* --- C6
IsDotted(x) == \A i \in 1..Len(x) : x[i] \in Digits \cup {"."}
\* exactly three dot-separated non-negative integers
IsTriple(x) ==
    /\ IsDotted(x)
    /\ Cardinality({i \in 1..Len(x) : x[i] = "."}) = 2
    /\ Len(x) >= 5
    /\ x[1] # "." /\ x[Len(x)] # "."
    /\ \A i \in 1..(Len(x) - 1) : ~(x[i] = "." /\ x[i + 1] = ".")

\* C6: a dotted version string that is not exactly three dot-separated
\* integers ends the run with the malformed-version error; it is never
\* turned into a three-component version that goes on to the update check.
C6_MalformedVersionRejected ==
    (pc # "parse" /\ IsDotted(output) /\ ~IsTriple(output)) =>
        (exit = "die" /\ version = NoVersion)

\* --- C7
Yields(d) ==
    /\ IsCandidate(d.bin.name)
    /\ d.bin.run = "ok"
    /\ parse_xmrig_version(d.bin.out) # NoVersion

\* C7: search_xmrig returns the version and path of the first candidate,
\* in walk order, for which a version is obtained; every candidate for
\* which it is not is skipped and the search goes on; it returns nothing
\* exactly when no candidate yields a version.
C7_SearchSkipsFailures ==
    (arg = "dir" /\ pc \notin {"validate", "detect", "search"} /\ log = <<>>) =>
        LET good == {i \in 1..Len(dirs) : Yields(dirs[i])}
        IN  /\ msg # "Unable to parse version from xmrig output."
            /\ IF good = {} THEN result.kind = "none"
               ELSE /\ result.kind = "found"
                    /\ result.dir = dirs[Least(good)].id
                    /\ result.version = parse_xmrig_version(dirs[Least(good)].bin.out)

\* --- C8
\* the file before the first call of update_config_json and after it
CfgBefore == snap[1]
CfgAfter == IF Len(snap) = 1 THEN dirs[1].cfg ELSE snap[2]

HasPools(f) ==
    /\ f.exists
    /\ f.json.top = "dict"
    /\ f.json.pools.k = "list"
    /\ f.json.pools.items # <<>>

\* at most url, user, tls and tls-fingerprint of pools[0] differ
OnlyFirstPoolFields(b, a) ==
    /\ HasPools(b) /\ HasPools(a)
    /\ a.json.rest = b.json.rest
    /\ Len(a.json.pools.items) = Len(b.json.pools.items)
    /\ \A i \in 2..Len(b.json.pools.items) :
          a.json.pools.items[i] = b.json.pools.items[i]
    /\ a.json.pools.items[1].d = b.json.pools.items[1].d
    /\ b.json.pools.items[1].d =>
          a.json.pools.items[1].extra = b.json.pools.items[1].extra

C8_Frame ==
    /\ CfgAfter.exists = CfgBefore.exists
    /\ CfgBefore.exists =>
          (CfgAfter.json = CfgBefore.json \/ OnlyFirstPoolFields(CfgBefore, CfgAfter))
C8_Idempotent == Len(snap) = 2 => dirs[1].cfg = snap[2]

ClaimedTarget ==
    LET c == {i \in 1..Len(snap) : snap[i].cfg.exists /\ snap[i].id # result.dir}
    IN  IF c = {} THEN 0 ELSE Least(c)

\* C9: preserve_config touches at most that one config.json and never the
\* one beside the old binary; with as many lines as the saved old config
\* it becomes exactly the old config's lines, otherwise the old lines are
\* not written and the pool rewrite is applied to it.
C9_PreserveConfig ==
    (pc = "done" /\ snap # <<>>) =>
        \A i \in 1..Len(snap) :
            IF i # ClaimedTarget THEN dirs[i].cfg = snap[i].cfg
            ELSE IF snap[i].cfg.n = result.config.n
                 THEN dirs[i].cfg = result.config
                 ELSE dirs[i].cfg = update_config_json(snap[i].cfg)

\* --- C10
RecognisedSuffix(file) ==
    \/ EndsWith(file, <<".", "z", "i", "p">>)
    \/ EndsWith(file, <<".", "t", "a", "r", ".", "g", "z">>)
    \/ EndsWith(file, <<".", "t", "g", "z">>)

EventBefore(ev, i) == \E j \in 1..(i - 1) : log[j][1] = ev
Downloaded == HasEvent("urlretrieve") /\ msg # "Download failed"

\* C10: the archive is deleted only after the extraction of a recognised
\* format completed; extract_archive rewrites a config only after that
\* deletion and only in an entry that is new in the destination and is a
\* directory; with an unrecognised format the archive is kept, nothing is
\* extracted and extract_archive rewrites no config; a failed extraction
\* ends the run with the archive still there.
C10_ExtractOrder ==
    /\ \A i \in 1..Len(log) :
          /\ log[i][1] = "remove" =>
                (RecognisedSuffix(chosen.file) /\ EventBefore("extractall", i))
          /\ (log[i][1] = "update_config_json" /\ log[i][3] = "extract_archive") =>
                /\ EventBefore("remove", i)
                /\ <<"dir", log[i][2]>> \notin before
                /\ \E k \in 1..Len(dirs) : dirs[k].id = log[i][2]
    /\ (Downloaded /\ ~HasEvent("remove")) => ArchiveFile \in topfiles
    /\ (Downloaded /\ ~RecognisedSuffix(chosen.file)) =>
          /\ ArchiveFile \in topfiles
          /\ ~HasEvent("extractall") /\ ~HasEvent("remove")
          /\ \A i \in 1..Len(log) : log[i][3] # "extract_archive"
          /\ pc # "extract" => Listing(dirs, topfiles) = before
    /\ msg = "Extraction failed" =>
          (exit = "die" /\ ArchiveFile \in topfiles /\ ~HasEvent("remove"))

\* a zip was extracted, the archive deleted, and the config of the new
\* directory rewritten
C10_Witness ==
    /\ chosen = a_gcc
    /\ Len(log) >= 4
    /\ log[2][1] = "extractall"
    /\ log[3][1] = "remove"
    /\ log[4] = <<"update_config_json", extracted_dir, "extract_archive">>
    /\ ArchiveFile \notin topfiles

====
